---- MODULE Spec2Model ----
(***************************************************************************)
(* Weekly Schedule Generator (src/schedule.py).                            *)
(*                                                                         *)
(* Text is modelled as a sequence of one-character strings, so that        *)
(* splitting, stripping, formatting and time parsing are computed the way  *)
(* the program computes them.  A file is the sequence of its lines         *)
(* (readlines), each line carrying its line terminator.                    *)
(*                                                                         *)
(* A character outside ASCII is written as the name of the letter, lower    *)
(* case for the small letter and upper case for the capital: "cyr_pe" and  *)
(* "CYR_PE" are the Cyrillic letter pe.                                    *)
(*                                                                         *)
(* The contents of the input widgets (task, day, start time, end time and   *)
(* the color of the button) are what the user has put there when Add Task  *)
(* is pressed; they are inputs of add_task, not variables.                 *)
(*                                                                         *)
(* A fractional hour (hour + minute/60) is represented exactly by its      *)
(* numerator over 60, that is, by a count of minutes.                      *)
(***************************************************************************)
EXTENDS Integers, Sequences, FiniteSets, TLC

VARIABLES
    in_file,            \* lines of the file last handed to parse_txt
    parse,              \* outcome of the last parse_txt call
    plot_args,          \* arguments of the last plot_events call
    plot,               \* outcome of the last plot_events call
    task_list,          \* QListWidget rows: sequence of [id, text]
    selected_task,      \* self.selected_task: an item id, or None
    current_item,       \* task_list.currentItem(): an item id, or None
    next_id,            \* identity of the next QListWidgetItem created
    dialog,             \* what the last handler showed or raised
    app                 \* "running" or "aborted"

vars == <<in_file, parse, plot_args, plot, task_list, selected_task,
          current_item, next_id, dialog, app>>

formVars == <<task_list, selected_task, current_item, next_id, dialog, app>>

None == "None"

\* None where an item reference is expected (item ids start at 1)
NoItem == 0

-----------------------------------------------------------------------------
(* Bounds of the model *)

MaxLines == 3       \* lines in a file handed to parse_txt
MaxEvents == 2      \* events handed directly to plot_events
MaxImport == 2      \* lines of the file imported at construction
MaxItems == 2       \* list items created during one run of the form

-----------------------------------------------------------------------------
(* Characters and strings *)

Min(S) == CHOOSE x \in S : \A y \in S : x <= y
Max(S) == CHOOSE x \in S : \A y \in S : x >= y

DigitChars == <<"0", "1", "2", "3", "4", "5", "6", "7", "8", "9">>

IsDigit(c) == \E i \in 1..10 : DigitChars[i] = c

DigitVal(c) == (CHOOSE i \in 1..10 : DigitChars[i] = c) - 1

UpperChars ==
    <<"A", "B", "C", "D", "E", "F", "G", "H", "I", "J", "K", "L", "M",
      "N", "O", "P", "Q", "R", "S", "T", "U", "V", "W", "X", "Y", "Z",
      "CYR_PE", "CYR_EN", "CYR_VE", "CYR_TE", "CYR_ES", "CYR_ER", "CYR_CHE", "CYR_BE">>

LowerChars ==
    <<"a", "b", "c", "d", "e", "f", "g", "h", "i", "j", "k", "l", "m",
      "n", "o", "p", "q", "r", "s", "t", "u", "v", "w", "x", "y", "z",
      "cyr_pe", "cyr_en", "cyr_ve", "cyr_te", "cyr_es", "cyr_er", "cyr_che", "cyr_be">>

LowerChar(c) ==
    IF \E i \in 1..Len(UpperChars) : UpperChars[i] = c
    THEN LowerChars[CHOOSE i \in 1..Len(UpperChars) : UpperChars[i] = c]
    ELSE c

\* str.lower()
Lower(s) == [i \in 1..Len(s) |-> LowerChar(s[i])]

IsSpace(c) == c \in {" ", "\n", "\t"}

\* str.strip()
Strip(s) ==
    LET keep == {i \in 1..Len(s) : ~IsSpace(s[i])}
    IN  IF keep = {} THEN <<>> ELSE SubSeq(s, Min(keep), Max(keep))

\* str.split(sep): leftmost, non-overlapping occurrences of sep
RECURSIVE Split(_, _)
Split(s, sep) ==
    LET n == Len(s)
        k == Len(sep)
        hits == {i \in 1..(n - k + 1) : SubSeq(s, i, i + k - 1) = sep}
    IN  IF hits = {}
        THEN <<s>>
        ELSE LET i == Min(hits)
             IN  <<SubSeq(s, 1, i - 1)>> \o Split(SubSeq(s, i + k, n), sep)

\* sep.join(parts)
RECURSIVE Join(_, _)
Join(parts, sep) ==
    IF Len(parts) = 0 THEN <<>>
    ELSE IF Len(parts) = 1 THEN parts[1]
    ELSE parts[1] \o sep \o Join(Tail(parts), sep)

CommaSpace == <<",", " ">>
SpaceDashSpace == <<" ", "-", " ">>
Newline == <<"\n">>

-----------------------------------------------------------------------------
(* Weekdays *)

Monday == <<"M", "o", "n", "d", "a", "y">>
Tuesday == <<"T", "u", "e", "s", "d", "a", "y">>
Wednesday == <<"W", "e", "d", "n", "e", "s", "d", "a", "y">>
Thursday == <<"T", "h", "u", "r", "s", "d", "a", "y">>
Friday == <<"F", "r", "i", "d", "a", "y">>
Saturday == <<"S", "a", "t", "u", "r", "d", "a", "y">>
Sunday == <<"S", "u", "n", "d", "a", "y">>

weekdays == <<Monday, Tuesday, Wednesday, Thursday, Friday, Saturday, Sunday>>

\* list.index: position (from 0) of the first equal element, -1 for ValueError
WeekdaysIndex(d) ==
    IF \E i \in 1..Len(weekdays) : weekdays[i] = d
    THEN Min({i \in 1..Len(weekdays) : weekdays[i] = d}) - 1
    ELSE -1

\* WeekdayEnum.__members__: every name, aliases included, with its value
WeekdayEnum ==
    <<[name |-> <<"m", "o", "n">>, value |-> 0],
      [name |-> <<"t", "u", "e">>, value |-> 1],
      [name |-> <<"w", "e", "d">>, value |-> 2],
      [name |-> <<"t", "h", "u">>, value |-> 3],
      [name |-> <<"f", "r", "i">>, value |-> 4],
      [name |-> <<"s", "a", "t">>, value |-> 5],
      [name |-> <<"s", "u", "n">>, value |-> 6],
      [name |-> <<"cyr_pe", "cyr_en">>, value |-> 0],
      [name |-> <<"cyr_ve", "cyr_te">>, value |-> 1],
      [name |-> <<"cyr_es", "cyr_er">>, value |-> 2],
      [name |-> <<"cyr_che", "cyr_te">>, value |-> 3],
      [name |-> <<"cyr_pe", "cyr_te">>, value |-> 4],
      [name |-> <<"cyr_es", "cyr_be">>, value |-> 5],
      [name |-> <<"cyr_ve", "cyr_es">>, value |-> 6],
      [name |-> Lower(Monday), value |-> 0],
      [name |-> Lower(Tuesday), value |-> 1],
      [name |-> Lower(Wednesday), value |-> 2],
      [name |-> Lower(Thursday), value |-> 3],
      [name |-> Lower(Friday), value |-> 4],
      [name |-> Lower(Saturday), value |-> 5],
      [name |-> Lower(Sunday), value |-> 6]>>

\* name in WeekdayEnum.__members__
IsWeekdayName(n) == \E i \in 1..Len(WeekdayEnum) : WeekdayEnum[i].name = n

\* WeekdayEnum[name].value, for a member name
WeekdayValue(n) ==
    WeekdayEnum[CHOOSE i \in 1..Len(WeekdayEnum) : WeekdayEnum[i].name = n].value

-----------------------------------------------------------------------------
(* Times *)

NoTime == [ok |-> FALSE, hour |-> 0, minute |-> 0]

\* the hour directive (2[0-3]|[0-1]\d|\d) followed by ":": how many
\* characters the hour takes, 0 when there is no match
HourLen(s) ==
    IF /\ Len(s) >= 3 /\ IsDigit(s[1]) /\ IsDigit(s[2]) /\ s[3] = ":"
       /\ (s[1] \in {"0", "1"} \/ (s[1] = "2" /\ s[2] \in {"0", "1", "2", "3"}))
    THEN 2
    ELSE IF Len(s) >= 2 /\ IsDigit(s[1]) /\ s[2] = ":" THEN 1
    ELSE 0

\* the minute directive ([0-5]\d|\d) at position m: how many characters the
\* minute takes, 0 when there is no match
MinuteLen(s, m) ==
    IF /\ Len(s) >= m + 1 /\ IsDigit(s[m]) /\ IsDigit(s[m + 1])
       /\ s[m] \in {"0", "1", "2", "3", "4", "5"}
    THEN 2
    ELSE IF Len(s) >= m /\ IsDigit(s[m]) THEN 1
    ELSE 0

\* the number written by the digits s[from..from+len-1], len being 1 or 2
Number(s, from, len) ==
    IF len = 2 THEN 10 * DigitVal(s[from]) + DigitVal(s[from + 1])
    ELSE DigitVal(s[from])

StrptimeAt(s, hlen, mlen) ==
    IF hlen > 0 /\ mlen > 0 /\ hlen + 1 + mlen = Len(s)
    THEN [ok |-> TRUE, hour |-> Number(s, 1, hlen),
          minute |-> Number(s, hlen + 2, mlen)]
    ELSE NoTime

StrptimeFrom(s, hlen) ==
    StrptimeAt(s, hlen, IF hlen > 0 THEN MinuteLen(s, hlen + 2) ELSE 0)

\* datetime.datetime.strptime(s, "%H:%M").time(); ok = FALSE is ValueError.
\* The format compiles to (2[0-3]|[0-1]\d|\d):([0-5]\d|\d); the first match
\* is taken and must consume the whole string.
Strptime(s) == StrptimeFrom(s, HourLen(s))

\* datetime.time as a record
Time(h, m) == [hour |-> h, minute |-> m]

\* start >= v and friends on datetime.time values
TimeLess(a, b) == a.hour < b.hour \/ (a.hour = b.hour /\ a.minute < b.minute)

\* time_to_hours: hour + minute / 60, as a numerator over 60
time_to_hours(time) == time.hour * 60 + time.minute

\* ceil with the fraction dropped instead of rounded up
ceil_truncating(x) == x \div 60

\* math.ceil of a fractional hour given as a numerator over 60
ceil(x) == (x + 59) \div 60

-----------------------------------------------------------------------------
(* Colors *)

HexChars == <<"0", "1", "2", "3", "4", "5", "6", "7", "8", "9",
              "a", "b", "c", "d", "e", "f">>

IsHex(c) == \E i \in 1..16 : HexChars[i] = LowerChar(c)

IsHexString(s) == \A i \in 1..Len(s) : IsHex(s[i])

\* the named colors of matplotlib that the model's inputs can spell
NamedColors ==
    <<[name |-> <<"r", "e", "d">>, hex |-> <<"#", "f", "f", "0", "0", "0", "0">>],
      [name |-> <<"b", "l", "u", "e">>, hex |-> <<"#", "0", "0", "0", "0", "f", "f">>],
      [name |-> <<"r">>, hex |-> <<"#", "f", "f", "0", "0", "0", "0">>]>>

IsNamedColor(n) == \E i \in 1..Len(NamedColors) : NamedColors[i].name = n

NamedColorHex(n) ==
    NamedColors[CHOOSE i \in 1..Len(NamedColors) : NamedColors[i].name = n].hex

\* "#rrggbb" in lower case from the hex digits after "#": three or four
\* digits are doubled, the alpha digits are dropped
HexColor(body) ==
    <<"#">> \o Lower(IF Len(body) \in {3, 4}
                     THEN <<body[1], body[1], body[2], body[2], body[3],
                            body[3]>>
                     ELSE SubSeq(body, 1, 6))

ValidateLower(v, lower) ==
    IF Len(v) /= 1 /\ IsNamedColor(lower)
    THEN [ok |-> TRUE, hex |-> NamedColorHex(lower)]
    ELSE IF /\ Len(v) \in {4, 5, 7, 9} /\ v[1] = "#"
            /\ IsHexString(SubSeq(v, 2, Len(v)))
    THEN [ok |-> TRUE, hex |-> HexColor(SubSeq(v, 2, Len(v)))]
    ELSE [ok |-> FALSE, hex |-> <<>>]

\* Event.validate_color: mcolors.to_hex(mcolors.to_rgba(v)); ok = FALSE is
\* ValueError.  A name is looked up as written and then, unless it is a
\* single letter, in lower case; the result is "#rrggbb" in lower case.
validate_color(v) ==
    IF IsNamedColor(v) THEN [ok |-> TRUE, hex |-> NamedColorHex(v)]
    ELSE ValidateLower(v, Lower(v))

-----------------------------------------------------------------------------
(* Events and the parser *)

\* Event.__init__: stores its arguments as given
Event(title, day, start, end, color) ==
    [title |-> title, day |-> day, start |-> start, end |-> end,
     color |-> color]

NoEvent == Event(<<>>, 0, Time(0, 0), Time(0, 0), <<>>)

Skipped == [kind |-> "skip", event |-> NoEvent]

Raised == [kind |-> "IndexError", event |-> NoEvent]

\* the line whose fields are parts, once both times are parsed
ParseTimes(parts, start, end) ==
    IF ~start.ok \/ ~end.ok THEN Skipped
    ELSE [kind |-> "event",
          event |-> Event(parts[1], WeekdayValue(Lower(parts[2])),
                          Time(start.hour, start.minute),
                          Time(end.hour, end.minute), parts[4])]

\* the line whose fields are parts, once the time range is split
ParseRange(parts, range) ==
    IF Len(range) /= 2 THEN Skipped
    ELSE IF Len(parts) < 4 THEN Raised
    ELSE ParseTimes(parts, Strptime(range[1]), Strptime(range[2]))

\* the line whose fields are parts
ParseParts(parts) ==
    IF Len(parts) < 2 THEN Raised
    ELSE IF ~IsWeekdayName(Lower(parts[2])) THEN Skipped
    ELSE IF Len(parts) < 3 THEN Raised
    ELSE ParseRange(parts, Split(parts[3], SpaceDashSpace))

\* The body of the loop of parse_txt for one line.  kind is "event" when an
\* Event is appended, "skip" when ValueError or KeyError is caught, and
\* "IndexError" when the subscript of a missing field raises, which the
\* except clause does not catch.
ParseLine(line) == ParseParts(Split(Strip(line), CommaSpace))

RECURSIVE ParseLines(_, _)

\* the loop of parse_txt after the line with outcome r
ParseAfter(rest, events, r) ==
    IF r.kind = "IndexError" THEN [exc |-> "IndexError", events |-> events]
    ELSE ParseLines(rest, IF r.kind = "event" THEN Append(events, r.event)
                          ELSE events)

\* the loop of parse_txt: the events appended, and the exception that ended
\* the loop, if any
ParseLines(lines, events) ==
    IF lines = <<>> THEN [exc |-> None, events |-> events]
    ELSE ParseAfter(Tail(lines), events, ParseLine(Head(lines)))

ParseResult(r) ==
    IF r.exc = None
    THEN [state |-> "returned", exc |-> None, events |-> r.events]
    ELSE [state |-> "raised", exc |-> r.exc, events |-> <<>>]

\* parse_txt: state is "returned" with the list returned, or "raised" with no
\* list at all
parse_txt(lines) == ParseResult(ParseLines(lines, <<>>))

NotParsed == [state |-> "idle", exc |-> None, events |-> <<>>]

-----------------------------------------------------------------------------
(* The renderer *)

NotPlotted ==
    [state |-> "idle", exc |-> None, rects |-> <<>>, xlim |-> <<>>,
     xticks |-> <<>>, ylim |-> <<>>, yticks |-> <<>>, saved |-> FALSE,
     shown |-> FALSE]

NoArgs == [events |-> <<>>, show |-> FALSE, with_weekends |-> FALSE,
           save_img |-> FALSE, out_path |-> None, called |-> FALSE]

\* range(a, b) as a sequence
Range(a, b) == [i \in 1..(IF b > a THEN b - a ELSE 0) |-> a + i - 1]

\* the rectangle fill_between draws for one event: x in hundredths of a day
\* column, y in minutes (sixtieths of an hour)
Rect(event) ==
    [min_x |-> event.day * 100 + 50,
     max_x |-> event.day * 100 + 50 + 96,
     min_y |-> time_to_hours(event.start),
     max_y |-> time_to_hours(event.end),
     color |-> event.color]

\* days: the names of WeekdayEnum without its aliases, weekends on request
DayCount(with_weekends) ==
    Cardinality({v \in 0..6 :
        /\ \E i \in 1..Len(WeekdayEnum) : WeekdayEnum[i].value = v
        /\ (with_weekends \/ v < 5)})

\* min(time_to_hours(event.start) for event in events), ceiled
Earliest(events) ==
    ceil(Min({time_to_hours(events[i].start) : i \in 1..Len(events)}))

\* max(time_to_hours(event.end) for event in events), ceiled
Latest(events) ==
    ceil(Max({time_to_hours(events[i].end) : i \in 1..Len(events)}))

\* ax.set_yticks(range(earliest, latest))
YTicks(earliest, latest) == Range(earliest, latest)

\* the axes plot_events leaves for n visible days and the two ceiled bounds
Axes(events, show, save_img, n, earliest, latest) ==
    [state |-> "returned",
     exc |-> None,
     rects |-> [i \in 1..Len(events) |-> Rect(events[i])],
     xlim |-> <<50, n * 100 + 50>>,
     xticks |-> Range(1, n + 1),
     ylim |-> <<latest, earliest>>,
     yticks |-> YTicks(earliest, latest),
     saved |-> save_img,
     shown |-> show]

PlotRaised == [NotPlotted EXCEPT !.state = "raised", !.exc = "ValueError"]

\* plot_events with min and max given a default, so that no events is no error
plot_events_with_default(events, show, with_weekends, save_img, out_path) ==
    IF save_img /\ out_path = None THEN PlotRaised
    ELSE IF events = <<>>
    THEN Axes(events, show, save_img, DayCount(with_weekends), 0, 0)
    ELSE Axes(events, show, save_img, DayCount(with_weekends),
              Earliest(events), Latest(events))

\* plot_events.  xlim is in hundredths; ylim is the pair handed to set_ylim,
\* bottom first; a call that raises saves nothing.
plot_events(events, show, with_weekends, save_img, out_path) ==
    IF (save_img /\ out_path = None) \/ events = <<>> THEN PlotRaised
    ELSE Axes(events, show, save_img, DayCount(with_weekends),
              Earliest(events), Latest(events))

-----------------------------------------------------------------------------
(* The form: helpers *)

Item(id, text) == [id |-> id, text |-> text]

\* QListWidget.row(item): 0-based row of the item, -1 when it is not listed
Row(list, id) ==
    IF \E i \in 1..Len(list) : list[i].id = id
    THEN (CHOOSE i \in 1..Len(list) : list[i].id = id) - 1
    ELSE -1

\* QListWidget.insertItem(row, item)
InsertItem(list, row, item) ==
    SubSeq(list, 1, row) \o <<item>> \o SubSeq(list, row + 1, Len(list))

\* QListWidget.takeItem(row): no effect when the row is out of range
TakeItem(list, row) ==
    IF row < 0 \/ row >= Len(list) THEN list
    ELSE SubSeq(list, 1, row) \o SubSeq(list, row + 2, Len(list))

\* currentItem() after takeItem(row): when the current row is removed the
\* view moves to the row that follows it, or else to the one before it
CurrentAfterTake(list, row, cur) ==
    IF row < 0 \/ row >= Len(list) \/ list[row + 1].id /= cur THEN cur
    ELSE IF row + 2 <= Len(list) THEN list[row + 2].id
    ELSE IF row >= 1 THEN list[row].id
    ELSE NoItem

NoKey(exc) == [ok |-> FALSE, exc |-> exc, day |-> 0, start |-> NoTime]

SortKeyOf(day_index, start) ==
    IF day_index < 0 \/ ~start.ok THEN NoKey("ValueError")
    ELSE [ok |-> TRUE, exc |-> None, day |-> day_index, start |-> start]

SortKeyFields(task_info) ==
    IF Len(task_info) < 3 THEN NoKey("IndexError")
    ELSE SortKeyOf(WeekdaysIndex(task_info[2]),
                   Strptime(Split(task_info[3], SpaceDashSpace)[1]))

\* the sort key insert_sorted reads from an item text: ok = FALSE when the
\* subscripts, weekdays.index or strptime raise
SortKey(text) == SortKeyFields(Split(text, CommaSpace))

\* the comparison with the day left out
GoesBefore_start_only(task, current) == TimeLess(task.start, current.start)

\* the comparison with <= on the start time
GoesBefore_or_equal(task, current) ==
    \/ task.day < current.day
    \/ (task.day = current.day /\ ~TimeLess(current.start, task.start))

\* the comparison of insert_sorted: the new task goes before the current one
GoesBefore(task, current) ==
    \/ task.day < current.day
    \/ (task.day = current.day /\ TimeLess(task.start, current.start))

RECURSIVE InsertLoop(_, _, _, _)

\* one turn of the loop of insert_sorted, at row i (0-based) with key cur
InsertAt(list, item, key, i, cur) ==
    IF ~cur.ok THEN [exc |-> cur.exc, list |-> list]
    ELSE IF GoesBefore(key, cur)
    THEN [exc |-> None, list |-> InsertItem(list, i, item)]
    ELSE InsertLoop(list, item, key, i + 1)

\* the loop of insert_sorted from row i (0-based)
InsertLoop(list, item, key, i) ==
    IF i >= Len(list) THEN [exc |-> None, list |-> Append(list, item)]
    ELSE InsertAt(list, item, key, i, SortKey(list[i + 1].text))

InsertWithKey(list, item, key) ==
    IF ~key.ok THEN [exc |-> key.exc, list |-> list]
    ELSE InsertLoop(list, item, key, 0)

\* insert_sorted: the list afterwards, and the exception it raised, if any
insert_sorted(list, item) == InsertWithKey(list, item, SortKey(item.text))

\* re.sub(r"\D", "", s)
RECURSIVE DigitsOf(_)
DigitsOf(s) ==
    IF s = <<>> THEN <<>>
    ELSE (IF IsDigit(Head(s)) THEN <<Head(s)>> ELSE <<>>) \o DigitsOf(Tail(s))

\* str.zfill(4)
Zfill4(s) == [i \in 1..(4 - Len(s)) |-> "0"] \o s

\* hours, ":" and minutes of the padded digits
HoursMinutes(padded) ==
    SubSeq(padded, 1, 2) \o <<":">> \o SubSeq(padded, 3, Len(padded))

ConvertDigits(digits) ==
    IF digits = <<>> THEN <<>>
    ELSE HoursMinutes(IF Len(digits) < 4 THEN Zfill4(digits) ELSE digits)

\* convert_time_input
convert_time_input(time_input) == ConvertDigits(DigitsOf(time_input))

\* is_valid_time: re.match anchors at the start only
is_valid_time(time) ==
    /\ Len(time) >= 5
    /\ IsDigit(time[1]) /\ IsDigit(time[2])
    /\ time[3] = ":"
    /\ IsDigit(time[4]) /\ IsDigit(time[5])

\* code points of the characters convert_time_input can produce
CharCode(c) == IF IsDigit(c) THEN 48 + DigitVal(c) ELSE 58

\* a < b on str
RECURSIVE StrLess(_, _)
StrLess(a, b) ==
    IF b = <<>> THEN FALSE
    ELSE IF a = <<>> THEN TRUE
    ELSE IF CharCode(Head(a)) /= CharCode(Head(b))
    THEN CharCode(Head(a)) < CharCode(Head(b))
    ELSE StrLess(Tail(a), Tail(b))

\* is_valid_time_range
is_valid_time_range(start_time, end_time) == StrLess(start_time, end_time)

\* f"{task}, {day}, {start_time} - {end_time}, {color}"
TaskText(task, day, start_time, end_time, color) ==
    Join(<<task, day, start_time \o SpaceDashSpace \o end_time, color>>,
         CommaSpace)

\* generate_input_file, as the lines readlines gives back
generate_input_file(list) == [i \in 1..Len(list) |-> list[i].text \o Newline]

RECURSIVE ReadLoop(_, _, _)

ReadAfter(rest, id, r) ==
    IF r.exc /= None THEN r ELSE ReadLoop(rest, r.list, id + 1)

\* the loop of read_task_list: the lines inserted one by one, ids from id
ReadLoop(lines, list, id) ==
    IF lines = <<>> THEN [exc |-> None, list |-> list]
    ELSE ReadAfter(Tail(lines), id,
                   insert_sorted(list, Item(id, Strip(Head(lines)))))

\* read_task_list
read_task_list(lines) == ReadLoop(lines, <<>>, 1)

\* the loop of import_task_list, which reads the color field of every row
ReadColors(r) ==
    IF r.exc /= None THEN r
    ELSE IF \E i \in 1..Len(r.list) :
                Len(Split(r.list[i].text, CommaSpace)) < 4
    THEN [exc |-> "IndexError", list |-> r.list]
    ELSE r

\* import_task_list
import_task_list(lines) == ReadColors(read_task_list(lines))

-----------------------------------------------------------------------------
(* Inputs of the model *)

LineStudy ==
    <<"S", "t", "u", "d", "y", ",", " ", "M", "o", "n", "d", "a", "y", ",", " ", "0", "9", ":", "0", "0", " ", "-", " ", "1", "0", ":", "3", "0", ",", " ", "#", "3", "3", "6", "6", "9", "9", "\n">>

LineAlias ==
    <<"B", ",", " ", "m", "o", "n", ",", " ", "8", ":", "0", "0", " ", "-", " ", "0", "9", ":", "0", "0", ",", " ", "r", "e", "d", "\n">>

LineUpper ==
    <<"C", ",", " ", "T", "U", "E", ",", " ", "0", "7", ":", "3", "0", " ", "-", " ", "0", "8", ":", "0", "0", ",", " ", "#", "F", "F", "0", "0", "0", "0", "\n">>

LineNoColor ==
    <<"D", ",", " ", "M", "o", "n", "d", "a", "y", ",", " ", "0", "9", ":", "0", "0", " ", "-", " ", "1", "0", ":", "3", "0", "\n">>

LineBlank ==
    <<"\n">>

LineSameTime ==
    <<"E", ",", " ", "M", "o", "n", "d", "a", "y", ",", " ", "0", "9", ":", "0", "0", " ", "-", " ", "0", "9", ":", "0", "0", ",", " ", "r", "e", "d", "\n">>

LineBadDay ==
    <<"F", ",", " ", "F", "u", "n", "d", "a", "y", ",", " ", "0", "9", ":", "0", "0", " ", "-", " ", "1", "0", ":", "0", "0", ",", " ", "r", "e", "d", "\n">>

LineBadHour ==
    <<"G", ",", " ", "M", "o", "n", "d", "a", "y", ",", " ", "0", "9", ":", "0", "0", " ", "-", " ", "2", "4", ":", "0", "0", ",", " ", "r", "e", "d", "\n">>

LineBadMinute ==
    <<"H", ",", " ", "M", "o", "n", "d", "a", "y", ",", " ", "0", "9", ":", "6", "0", " ", "-", " ", "1", "0", ":", "0", "0", ",", " ", "r", "e", "d", "\n">>

LineBadColor ==
    <<"I", ",", " ", "M", "o", "n", "d", "a", "y", ",", " ", "0", "9", ":", "0", "0", " ", "-", " ", "1", "0", ":", "0", "0", ",", " ", "n", "o", "c", "o", "l", "o", "r", "\n">>

\* the lines a file handed to parse_txt is made of
ParseLineSet ==
    {LineStudy, LineAlias, LineUpper, LineNoColor, LineBlank, LineSameTime,
     LineBadDay, LineBadHour, LineBadMinute, LineBadColor}

\* sequences of at most n elements of S
SeqUpTo(S, n) == UNION {[1..k -> S] : k \in 0..n}

ImportA ==
    <<"A", ",", " ", "M", "o", "n", "d", "a", "y", ",", " ", "0", "9", ":", "0", "0", " ", "-", " ", "1", "0", ":", "3", "0", ",", " ", "#", "3", "3", "6", "6", "9", "9", "\n">>

ImportB ==
    <<"B", ",", " ", "M", "o", "n", "d", "a", "y", ",", " ", "0", "9", ":", "0", "0", " ", "-", " ", "1", "0", ":", "0", "0", ",", " ", "r", "e", "d", "\n">>

ImportC ==
    <<"A", ",", " ", "T", "u", "e", "s", "d", "a", "y", ",", " ", "0", "8", ":", "0", "0", " ", "-", " ", "0", "9", ":", "0", "0", ",", " ", "#", "f", "f", "0", "0", "0", "0", "\n">>

ImportAlias ==
    <<"B", ",", " ", "m", "o", "n", ",", " ", "0", "8", ":", "0", "0", " ", "-", " ", "0", "9", ":", "0", "0", ",", " ", "r", "e", "d", "\n">>

\* the lines the file imported at construction is made of
ImportLineSet == {ImportA, ImportB, ImportC, ImportAlias}

\* what the time fields hold when Add Task is pressed
TimeInputs ==
    {<<"9", "0", "0">>,
     <<"9", "6", "0">>,
     <<"1", "0", "3", "0">>,
     <<"x">>}

\* what the task field holds when Add Task is pressed
TitleInputs == {<<"A">>}

\* the days the combo box shows when Add Task is pressed
DayChoices == {Monday, Tuesday}

\* the colors the button reports when Add Task is pressed
ColorInputs ==
    {<<"#", "e", "f", "e", "f", "e", "f">>}

\* the colors generate_muted_color draws in the model
MutedColors ==
    {<<"#", "6", "4", "9", "6", "c", "8">>,
     <<"#", "c", "8", "9", "6", "6", "4">>}

OutPath == "out.png"

\* the events handed directly to plot_events
PlotEventSet ==
    {Event(<<"S">>, 0, Time(9, 0), Time(10, 30), <<"r", "e", "d">>),
     Event(<<"T">>, 4, Time(8, 30), Time(9, 0), <<"r", "e", "d">>),
     Event(<<"U">>, 6, Time(22, 15), Time(23, 59), <<"r", "e", "d">>),
     Event(<<"V">>, 2, Time(10, 0), Time(9, 0), <<"r", "e", "d">>)}

-----------------------------------------------------------------------------
(* The form: state after construction *)

\* in_file, parse, plot_args and plot record the calls made by the step just
\* taken; a handler that calls neither parse_txt nor plot_events leaves them
\* idle
NoCalls ==
    /\ in_file' = <<>>
    /\ parse' = NotParsed
    /\ plot_args' = NoArgs
    /\ plot' = NotPlotted

\* the form once import_task_list has returned r
FormWith(r, count) ==
    /\ r.exc = None
    /\ task_list = r.list
    /\ next_id = count + 1
    /\ selected_task = NoItem
    /\ current_item = NoItem
    /\ dialog = "none"
    /\ app = "running"

\* WeeklyScheduleGenerator.__init__ with the file given on the command line
\* or chosen in the dialog (no file chosen is the empty file); a file that
\* makes import_task_list raise never gets a window
FormInit(lines) == FormWith(import_task_list(lines), Len(lines))

\* an exception that leaves a slot either ends the process or is printed and
\* the event loop goes on, depending on the binding's version
Unhandled(exc) ==
    /\ dialog' = exc
    /\ app' \in {"running", "aborted"}

Listed(id) == \E i \in 1..Len(task_list) : task_list[i].id = id

TextOf(id) == task_list[Row(task_list, id) + 1].text

-----------------------------------------------------------------------------
(* The form: handlers *)

\* re.split(r",\s*", text)
RegexCommaSplit(text) ==
    LET raw == Split(text, <<",">>)
        LStrip(f) == LET keep == {i \in 1..Len(f) : ~IsSpace(f[i])}
                     IN  IF keep = {} THEN <<>>
                         ELSE SubSeq(f, Min(keep), Len(f))
    IN  [i \in 1..Len(raw) |-> IF i = 1 THEN raw[i] ELSE LStrip(raw[i])]

\* the subscripts select_task applies to the fields of the row
SelectFields(task_info) ==
    /\ Len(task_info) >= 4
    /\ Len(Split(task_info[3], SpaceDashSpace)) >= 2

\* select_task: the user clicks a row, which also makes it the current row;
\* the fields of the row are then copied into the input widgets, which
\* raises when a field is missing
select_task(id) ==
    /\ app = "running"
    /\ Listed(id)
    /\ selected_task' = id
    /\ current_item' = id
    /\ IF SelectFields(RegexCommaSplit(TextOf(id)))
       THEN dialog' = "none" /\ UNCHANGED app
       ELSE Unhandled("IndexError")
    /\ UNCHANGED <<task_list, next_id>>
    /\ NoCalls

\* delete_task, with the answer given in the confirmation dialog
delete_task(yes) ==
    /\ app = "running"
    /\ current_item /= NoItem
    /\ IF yes
       THEN /\ task_list' = TakeItem(task_list, Row(task_list, current_item))
            /\ current_item' = CurrentAfterTake(task_list,
                                   Row(task_list, current_item), current_item)
       ELSE UNCHANGED <<task_list, current_item>>
    /\ dialog' = "none"
    /\ UNCHANGED <<selected_task, next_id, app>>
    /\ NoCalls

\* the list and the dialog after insert_sorted has ended with r
Inserted(r) ==
    /\ task_list' = r.list
    /\ IF r.exc = None
       THEN dialog' = "none" /\ UNCHANGED app
       ELSE Unhandled(r.exc)

\* clone_task
clone_task ==
    /\ app = "running"
    /\ current_item /= NoItem
    /\ next_id <= MaxItems
    /\ Inserted(insert_sorted(task_list, Item(next_id, TextOf(current_item))))
    /\ next_id' = next_id + 1
    /\ UNCHANGED <<selected_task, current_item>>
    /\ NoCalls

\* the row rewritten with the color of its task name
Recolored(item, fields, task_colors) ==
    Item(item.id, Join(<<Strip(fields[1]), fields[2], fields[3],
                         task_colors[Strip(fields[1])]>>, CommaSpace))

\* the rows rewritten up to row stop (not included)
RecolorUpTo(list, task_colors, stop) ==
    [exc |-> IF stop > Len(list) THEN None ELSE "ValueError",
     list |-> [i \in 1..Len(list) |->
                 IF i < stop
                 THEN Recolored(list[i], Split(list[i].text, CommaSpace),
                                task_colors)
                 ELSE list[i]]]

\* the first row whose text does not unpack into four fields
FirstBadRow(list) ==
    Min({i \in 1..Len(list) : Len(Split(list[i].text, CommaSpace)) /= 4}
        \cup {Len(list) + 1})

\* generate_auto_colors with the colors the random generator gives to the
\* task names: rows are rewritten in order, up to the first row whose text
\* does not unpack into four fields
generate_auto_colors(list, task_colors) ==
    RecolorUpTo(list, task_colors, FirstBadRow(list))

TaskNames(list) ==
    {Strip(Split(list[i].text, CommaSpace)[1]) : i \in 1..Len(list)}

\* on_auto_colors_clicked, with the answer given in the confirmation dialog
on_auto_colors_clicked(yes) ==
    /\ app = "running"
    /\ IF yes
       THEN \E task_colors \in [TaskNames(task_list) -> MutedColors] :
                Inserted(generate_auto_colors(task_list, task_colors))
       ELSE /\ dialog' = "none"
            /\ UNCHANGED <<task_list, app>>
    /\ UNCHANGED <<selected_task, current_item, next_id>>
    /\ NoCalls

\* add_task from the removal of the selected row on
AddItem(text, row) ==
    /\ selected_task' = NoItem
    /\ current_item' = IF selected_task /= NoItem
                       THEN CurrentAfterTake(task_list, row, current_item)
                       ELSE current_item
    /\ Inserted(insert_sorted(IF selected_task /= NoItem
                              THEN TakeItem(task_list, row) ELSE task_list,
                              Item(next_id, text)))
    /\ next_id' = next_id + 1

\* add_task with a message shown and nothing else done
Rejected(message) ==
    /\ dialog' = message
    /\ UNCHANGED <<task_list, selected_task, current_item, next_id, app>>

\* add_task once the two time fields are converted
AddConverted(task, day, start_time, end_time, color) ==
    IF ~is_valid_time(start_time) \/ ~is_valid_time(end_time)
    THEN Rejected("Invalid Time")
    ELSE IF ~is_valid_time_range(start_time, end_time)
    THEN Rejected("Invalid Time Range")
    ELSE AddItem(TaskText(task, day, start_time, end_time, color),
                 Row(task_list, selected_task))

\* add_task, with the contents of the task, day, start time and end time
\* widgets and the color of the button when it is called
add_task(task, day, start_text, end_text, color) ==
    /\ app = "running"
    /\ next_id <= MaxItems
    /\ AddConverted(task, day, convert_time_input(start_text),
                    convert_time_input(end_text), color)
    /\ NoCalls

\* render_schedule: the rows are written to the temporary file, parsed and
\* plotted with weekends into the image file
render_schedule ==
    /\ app = "running"
    /\ in_file' = generate_input_file(task_list)
    /\ parse' = parse_txt(in_file')
    /\ IF parse'.state = "raised"
       THEN /\ plot_args' = NoArgs
            /\ plot' = NotPlotted
            /\ Unhandled(parse'.exc)
       ELSE /\ plot_args' = [events |-> parse'.events, show |-> FALSE,
                             with_weekends |-> TRUE, save_img |-> TRUE,
                             out_path |-> OutPath, called |-> TRUE]
            /\ plot' = plot_events(parse'.events, FALSE, TRUE, TRUE, OutPath)
            /\ IF plot'.state = "raised"
               THEN Unhandled(plot'.exc)
               ELSE dialog' = "none" /\ UNCHANGED app
    /\ UNCHANGED <<task_list, selected_task, current_item, next_id>>

-----------------------------------------------------------------------------
(* Direct calls of the parser and of the renderer *)

\* parse_txt(in_path) on the file drawn in the initial state
call_parse_txt ==
    /\ parse.state = "idle"
    /\ parse' = parse_txt(in_file)
    /\ UNCHANGED <<in_file, plot_args, plot>>
    /\ UNCHANGED formVars

\* plot_events(...) with the arguments drawn in the initial state
call_plot_events ==
    /\ ~plot_args.called
    /\ plot_args' = [plot_args EXCEPT !.called = TRUE]
    /\ plot' = plot_events(plot_args.events, plot_args.show,
                           plot_args.with_weekends, plot_args.save_img,
                           plot_args.out_path)
    /\ UNCHANGED <<in_file, parse>>
    /\ UNCHANGED formVars

-----------------------------------------------------------------------------
(* Specifications *)

\* the form, from construction on
Init ==
    /\ \E lines \in SeqUpTo(ImportLineSet, MaxImport) : FormInit(lines)
    /\ in_file = <<>>
    /\ parse = NotParsed
    /\ plot_args = NoArgs
    /\ plot = NotPlotted

Next ==
    \/ \E task \in TitleInputs, day \in DayChoices, color \in ColorInputs,
          start \in TimeInputs, end \in TimeInputs :
            add_task(task, day, start, end, color)
    \/ \E id \in 1..MaxItems : select_task(id)
    \/ \E yes \in BOOLEAN : delete_task(yes)
    \/ clone_task
    \/ \E yes \in BOOLEAN : on_auto_colors_clicked(yes)
    \/ render_schedule

Spec == Init /\ [][Next]_vars

\* parse_txt called on a file
InitParse ==
    /\ FormInit(<<>>)
    /\ in_file \in SeqUpTo(ParseLineSet, MaxLines)
    /\ parse = NotParsed
    /\ plot_args = NoArgs
    /\ plot = NotPlotted

NextParse == call_parse_txt

SpecParse == InitParse /\ [][NextParse]_vars

\* plot_events called directly, and by the Render button of a new form
PlotArgSet ==
    [events : SeqUpTo(PlotEventSet, MaxEvents), show : BOOLEAN,
     with_weekends : BOOLEAN, save_img : BOOLEAN, out_path : {None, OutPath},
     called : {FALSE}]

InitPlot ==
    /\ \E lines \in SeqUpTo(ImportLineSet, MaxImport) : FormInit(lines)
    /\ in_file = <<>>
    /\ parse = NotParsed
    /\ plot_args \in PlotArgSet
    /\ plot = NotPlotted

NextPlot ==
    \/ call_plot_events
    \/ render_schedule

SpecPlot == InitPlot /\ [][NextPlot]_vars

-----------------------------------------------------------------------------
(* Properties of parse_txt, under SpecParse *)

Fields(line) == Split(Strip(line), CommaSpace)

\* a line with at least four fields, a known day alias and a time range of
\* two well-formed, in-range times
WellFormedLine(line) ==
    /\ Len(Fields(line)) >= 4
    /\ IsWeekdayName(Lower(Fields(line)[2]))
    /\ Len(Split(Fields(line)[3], SpaceDashSpace)) = 2
    /\ Strptime(Split(Fields(line)[3], SpaceDashSpace)[1]).ok
    /\ Strptime(Split(Fields(line)[3], SpaceDashSpace)[2]).ok

\* the event a well-formed line stands for, with the color as written
LineEvent(line) ==
    LET range == Split(Fields(line)[3], SpaceDashSpace)
        start == Strptime(range[1])
        end == Strptime(range[2])
    IN  Event(Fields(line)[1], WeekdayValue(Lower(Fields(line)[2])),
              Time(start.hour, start.minute), Time(end.hour, end.minute),
              Fields(line)[4])

\* the events of the well-formed lines, in the order of the lines
RECURSIVE LineEvents(_)
LineEvents(lines) ==
    IF lines = <<>> THEN <<>>
    ELSE (IF WellFormedLine(Head(lines)) THEN <<LineEvent(Head(lines))>>
          ELSE <<>>) \o LineEvents(Tail(lines))

HasShortLine(lines) == \E i \in 1..Len(lines) : Len(Fields(lines[i])) < 4

\* C1: parse_txt does not raise on a file with a line of fewer than four
\* fields; the line is skipped and the events of the well-formed lines are
\* returned
C1_ShortLineSkipped ==
    (parse.state /= "idle" /\ HasShortLine(in_file))
        => (parse.state = "returned" /\ parse.events = LineEvents(in_file))

\* C2: every Event returned by parse_txt ends strictly after it starts
C2_EndAfterStart ==
    \A i \in 1..Len(parse.events) :
        TimeLess(parse.events[i].start, parse.events[i].end)

\* C3: for every file, parse_txt returns without raising, and returns one
\* event per line with four fields, a known day alias and a well-formed
\* in-range time range, in the order of the lines
C3_OneEventPerGoodLineInOrder ==
    parse.state /= "idle"
        => (parse.state = "returned" /\ parse.events = LineEvents(in_file))

\* the well-formed lines whose color field is a recognized color
RECURSIVE ColoredLines(_)
ColoredLines(lines) ==
    IF lines = <<>> THEN <<>>
    ELSE (IF WellFormedLine(Head(lines))
             /\ validate_color(Fields(Head(lines))[4]).ok
          THEN <<Head(lines)>> ELSE <<>>) \o ColoredLines(Tail(lines))

\* C4: the events parse_txt returns are those of the lines with a recognized
\* color, and the color of each is the canonical hex form of the color field
C4_CanonicalColor ==
    parse.state = "returned"
        => /\ Len(parse.events) = Len(ColoredLines(in_file))
           /\ \A i \in 1..Len(parse.events) :
                  parse.events[i].color
                      = validate_color(Fields(ColoredLines(in_file)[i])[4]).hex

-----------------------------------------------------------------------------
(* Properties of plot_events, under SpecPlot *)

\* the least whole number of hours that is no less than x sixtieths
HoursUp(x) == CHOOSE h \in 0..24 : h * 60 >= x /\ (h - 1) * 60 < x

MinStart(events) ==
    Min({events[i].start.hour * 60 + events[i].start.minute :
            i \in 1..Len(events)})

MaxEnd(events) ==
    Max({events[i].end.hour * 60 + events[i].end.minute :
            i \in 1..Len(events)})

\* C5: a call of plot_events with no events raises, whatever the flags, and
\* saves no image; when the call is the one render_schedule makes, the
\* exception leaves the handler
C5_EmptyScheduleRaises ==
    (plot_args.called /\ plot_args.events = <<>>)
        => /\ plot.state = "raised"
           /\ plot.exc = "ValueError"
           /\ ~plot.saved
           /\ (parse.state = "returned" => dialog = "ValueError")

\* render_schedule has run on a form with an empty task list
C5_Witness ==
    /\ parse.state = "returned"
    /\ in_file = <<>>
    /\ plot_args.called
    /\ plot_args.events = <<>>
    /\ plot_args.save_img
    /\ plot.state = "raised"

C7_TicksOnEveryHour ==
    plot.state = "returned"
        => /\ {plot.yticks[i] : i \in 1..Len(plot.yticks)}
                = {h \in 0..24 : /\ HoursUp(MinStart(plot_args.events)) <= h
                                 /\ h <= HoursUp(MaxEnd(plot_args.events))}
           /\ \A i, j \in 1..Len(plot.yticks) :
                  plot.yticks[i] = plot.yticks[j] => i = j
           /\ Len(plot.xticks) = (IF plot_args.with_weekends THEN 7 ELSE 5)

-----------------------------------------------------------------------------
(* Properties of the form, under Spec *)

\* the row at position i precedes, in (weekday ordinal, start time), the row
\* at position j
KeyBefore(a, b) ==
    \/ a.day < b.day
    \/ (a.day = b.day /\ (a.start.hour * 60 + a.start.minute
                            < b.start.hour * 60 + b.start.minute))

SameKey(a, b) == ~KeyBefore(a, b) /\ ~KeyBefore(b, a)

\* C8: the task list is in ascending order of (weekday ordinal, start time),
\* and so are the events render_schedule parses and plots
C8_TaskListSorted ==
    /\ \A i, j \in 1..Len(task_list) :
           i < j => /\ SortKey(task_list[i].text).ok
                    /\ SortKey(task_list[j].text).ok
                    /\ ~KeyBefore(SortKey(task_list[j].text),
                                  SortKey(task_list[i].text))
    /\ \A i, j \in 1..Len(parse.events) :
           i < j => ~KeyBefore(parse.events[j], parse.events[i])
    /\ plot_args.called => plot_args.events = parse.events

\* render_schedule has run on a list of two tasks with different keys, the
\* later one added by add_task
C8_Witness ==
    /\ Len(task_list) >= 2
    /\ \E i \in 1..Len(task_list) :
           /\ i < Len(task_list)
           /\ KeyBefore(SortKey(task_list[i].text),
                        SortKey(task_list[i + 1].text))
           /\ Fields(task_list[i].text)[4] \in ColorInputs
           /\ task_list[i].id > task_list[i + 1].id
    /\ parse.state = "returned"
    /\ Len(parse.events) = Len(task_list)
    /\ plot_args.called

\* C9: two tasks with the same day and the same start time are listed in the
\* order in which they were inserted (ids are given in that order)
C9_StableInsertion ==
    \A i, j \in 1..Len(task_list) :
        (i < j /\ SameKey(SortKey(task_list[i].text),
                          SortKey(task_list[j].text)))
            => task_list[i].id < task_list[j].id

\* add_task has added a task with the day and start time of a listed task:
\* the new task follows the older one
C9_Witness ==
    \E i, j \in 1..Len(task_list) :
        /\ i < j
        /\ SameKey(SortKey(task_list[i].text), SortKey(task_list[j].text))
        /\ task_list[i].text /= task_list[j].text
        /\ Fields(task_list[j].text)[4] \in ColorInputs
        /\ task_list[i].id < task_list[j].id

\* a start or end time that is not a time of day, or an end that is not later
\* than the start, in what Add Task makes of the two time fields
RejectableTimes(start_time_input, end_time_input) ==
    LET start == Strptime(convert_time_input(start_time_input))
        end == Strptime(convert_time_input(end_time_input))
    IN  ~start.ok \/ ~end.ok \/ ~TimeLess(start, end)

\* C10: Add Task with a malformed or out-of-range time, or with an end that
\* is not later than the start, shows a message and leaves the task list
\* unchanged
C10_BadTimeRejected ==
    [][\A task \in TitleInputs, day \in DayChoices, color \in ColorInputs,
          start \in TimeInputs, end \in TimeInputs :
            (add_task(task, day, start, end, color)
                /\ RejectableTimes(start, end))
                => (/\ task_list' = task_list
                    /\ dialog' \in {"Invalid Time", "Invalid Time Range"})]_vars

-----------------------------------------------------------------------------
(* The drawn rectangles and the visible axes, under SpecPlot *)

\* an event on one of the seven days whose end is later than its start
ValidEvent(event) ==
    /\ event.day \in 0..6
    /\ TimeLess(event.start, event.end)

\* the rectangle lies between the two bounds handed to set_ylim (whole hours,
\* bottom first; the rectangle is in sixtieths)
InsideVertically(rect, ylim) ==
    /\ ylim[2] * 60 <= rect.min_y
    /\ rect.max_y <= ylim[1] * 60

\* the rectangle lies between the two bounds handed to set_xlim
InsideHorizontally(rect, xlim) ==
    /\ xlim[1] <= rect.min_x
    /\ rect.max_x <= xlim[2]

\* C11: when plot_events returns for a non-empty sequence of valid events,
\* with or without weekends, the rectangle drawn for each event lies entirely
\* inside the visible axes: its vertical extent [start, end] is within
\* [earliest, latest] and its column band [day + 0.5, day + 1.46] is within
\* the x-range [0.5, dayCount + 0.5]
C11_RectanglesInsideAxes ==
    (/\ plot.state = "returned"
     /\ plot_args.events /= <<>>
     /\ \A i \in 1..Len(plot_args.events) : ValidEvent(plot_args.events[i]))
        => /\ Len(plot.rects) = Len(plot_args.events)
           /\ \A i \in 1..Len(plot.rects) :
                  /\ plot.rects[i].min_y
                        = plot_args.events[i].start.hour * 60
                            + plot_args.events[i].start.minute
                  /\ plot.rects[i].max_y
                        = plot_args.events[i].end.hour * 60
                            + plot_args.events[i].end.minute
                  /\ plot.rects[i].min_x = plot_args.events[i].day * 100 + 50
                  /\ plot.rects[i].max_x = plot_args.events[i].day * 100 + 146
                  /\ InsideVertically(plot.rects[i], plot.ylim)
                  /\ InsideHorizontally(plot.rects[i], plot.xlim)

====
